---- MODULE Spec2Model ----
(***************************************************************************)
(* Model of Whatssap-MCP/whatsapp_claude.py: the chat-id resolver and the  *)
(* fifteen MCP tools built on the Green-API gateway client.                *)
(*                                                                         *)
(* Strings are sequences of tokens.  A contact reference is a sequence     *)
(* over Alphabet; the tokens "@c.us" and "@g.us" stand for those           *)
(* five-character substrings, every other token for one character.  A      *)
(* rendered text is the sequence of the pieces its f-string concatenates.  *)
(***************************************************************************)
EXTENDS Integers, Sequences, FiniteSets, TLC

VARIABLES pc, tool, args, calls, result, inflight, exc

vars == <<pc, tool, args, calls, result, inflight, exc>>

(* ----------------------------- bounds ---------------------------------- *)
MaxLen == 2
MaxContacts == 2
MaxMsgs == 2
MaxParticipants == 2

(* ----------------------------- strings --------------------------------- *)
Digits == {"1"}
Alphabet == {"1", "a", "A", "@c.us", "@g.us"}

SeqsUpTo(S, n) == UNION {[1..k -> S] : k \in 0..n}

Refs == SeqsUpTo(Alphabet, MaxLen)

\* str.isdigit(): non-empty and every character a digit
IsDigit(s) == Len(s) > 0 /\ \A i \in 1..Len(s) : s[i] \in Digits

\* str.lower()
LowerTok(t) == IF t = "A" THEN "a" ELSE t
Lower(s) == [i \in 1..Len(s) |-> LowerTok(s[i])]

\* a in b  (substring test)
Contains(b, a) ==
    \E i \in 0..(Len(b) - Len(a)) : SubSeq(b, i + 1, i + Len(a)) = a

\* str.endswith
EndsWith(s, suf) ==
    Len(s) >= Len(suf) /\ SubSeq(s, Len(s) - Len(suf) + 1, Len(s)) = suf

\* sep.join(parts), parts a sequence of texts
RECURSIVE Join(_, _)
Join(sep, parts) ==
    IF Len(parts) = 0 THEN <<>>
    ELSE IF Len(parts) = 1 THEN parts[1]
    ELSE parts[1] \o sep \o Join(sep, Tail(parts))

\* s[::-1]
Reverse(s) == [i \in 1..Len(s) |-> s[Len(s) + 1 - i]]

\* s[:n]
SliceTo(s, n) ==
    IF n >= 0 THEN SubSeq(s, 1, IF n < Len(s) THEN n ELSE Len(s))
    ELSE SubSeq(s, 1, IF Len(s) + n > 0 THEN Len(s) + n ELSE 0)

\* d.get(k, default) on a dict, modelled as a record
DictGet(d, k, default) == IF k \in DOMAIN d THEN d[k] ELSE default

\* d.get(k) used as a truth value
Truthy(d, k) == k \in DOMAIN d /\ d[k] = TRUE

(* ----------------------------- gateway --------------------------------- *)
\* A gateway call either raises or returns a response with a code and data;
\* repr is str(response.data) on a non-success response, str(e) on a raise.
Responses(okData, noData) ==
    {[out |-> "ok", code |-> 200, data |-> d, repr |-> "<data>"] : d \in okData}
    \cup {[out |-> "ok", code |-> c, data |-> noData, repr |-> "<error payload>"] :
              c \in {401}}
    \cup {[out |-> "raise", code |-> 0, data |-> noData, repr |-> "connection refused"]}

Ok(r) == r.out = "ok" /\ r.code = 200
Raised(r) == r.out = "raise"

Call(m, a, r) == [m |-> m, arg |-> a, resp |-> r]

\* contact records as getContacts returns them
Contacts ==
    { [id |-> <<"1", "@c.us">>, name |-> <<"A", "a">>, contactName |-> <<>>,
       type |-> "user"],
      [id |-> <<"1", "1", "@c.us">>, name |-> <<"a">>, contactName |-> <<"a">>,
       type |-> "user"],
      [id |-> <<"1", "@g.us">>, type |-> "group"] }

ContactLists == SeqsUpTo(Contacts, MaxContacts)
ContactResps == Responses(ContactLists, <<>>)

\* responses whose data the tool does not read
PlainResps == Responses({<<>>}, <<>>)

(* ------------------------- function results ---------------------------- *)
Ret(v, cs) == [raised |-> FALSE, val |-> v, calls |-> cs]
Exc(msg, cs) == [raised |-> TRUE, val |-> msg, calls |-> cs]

\* the except clause of every tool: return f"Error: {str(e)}"
ErrorText(msg) == <<"Error: ">> \o msg

(* --------------------------- resolve_chat_id --------------------------- *)
\* index of the first contact whose lowered name contains the lowered reference
FirstMatch(ref, cl) ==
    LET hits == {i \in 1..Len(cl) :
                    Contains(Lower(DictGet(cl[i], "name", <<>>)), Lower(ref))}
    IN  IF hits = {} THEN 0 ELSE CHOOSE i \in hits : \A j \in hits : i <= j

IsChatId(ref) == Contains(ref, <<"@c.us">>)

\* resolve_chat_id without the all-digits shortcut of line 23
resolve_chat_id_NoDigitCase(ref, r) ==
    IF IsChatId(ref) THEN Ret(ref, <<>>)
    ELSE LET cs == <<Call("getContacts", <<>>, r)>>
         IN  IF Raised(r) THEN Exc(<<r.repr>>, cs)
             ELSE IF r.code # 200 THEN Exc(<<"Failed to fetch contact list.">>, cs)
             ELSE IF FirstMatch(ref, r.data) # 0
                  THEN Ret(r.data[FirstMatch(ref, r.data)].id, cs)
                  ELSE Exc(<<"Contact '">> \o ref \o <<"' not found.">>, cs)

\* the function as written, lines 21-33
resolve_chat_id(ref, r) ==
    IF IsDigit(ref) THEN Ret(ref \o <<"@c.us">>, <<>>)
    ELSE IF IsChatId(ref) THEN Ret(ref, <<>>)
    ELSE LET cs == <<Call("getContacts", <<>>, r)>>
         IN  IF Raised(r) THEN Exc(<<r.repr>>, cs)
             ELSE IF r.code # 200 THEN Exc(<<"Failed to fetch contact list.">>, cs)
             ELSE IF FirstMatch(ref, r.data) # 0
                  THEN Ret(r.data[FirstMatch(ref, r.data)].id, cs)
                  ELSE Exc(<<"Contact '">> \o ref \o <<"' not found.">>, cs)

(* ------------------------------ adapters ------------------------------- *)
\* a tool body with no try/except around it
GuardMissing(o) == o

\* try: <body> except Exception as e: return f"Error: {str(e)}"
Guard(o) == IF o.raised THEN Ret(ErrorText(o.val), o.calls) ELSE o

\* the calls made so far, then one more gateway call
Invoke(m, a, r, before) == before \o <<Call(m, a, r)>>

FailedText(prefix, r) == <<prefix, r.repr>>

\* the references the tools are driven with
ToolRefs == {<<>>, <<"1">>, <<"a">>, <<"A">>, <<"1", "@c.us">>, <<"1", "@g.us">>}
Texts == {<<"hi">>}

open_session(r) ==
    LET cs == Invoke("getStateInstance", <<>>, r, <<>>)
    IN  Guard(IF Raised(r) THEN Exc(<<r.repr>>, cs)
              ELSE IF r.code = 200 THEN Ret(<<"WhatsApp session is active.">>, cs)
              ELSE Ret(FailedText("Failed: ", r), cs))

\* send_message falling back to the raw reference when resolution fails
send_message_Fallback(contact, message, rc, r) ==
    LET id == resolve_chat_id(contact, rc)
        chat_id == IF id.raised THEN contact ELSE id.val
        cs == Invoke("sendMessage", [chatId |-> chat_id, message |-> message], r,
                     id.calls)
    IN  Guard(IF Raised(r) THEN Exc(<<r.repr>>, cs)
              ELSE IF r.code = 200
                   THEN Ret(<<"Message sent to ">> \o contact \o <<".">>, cs)
                   ELSE Ret(FailedText("Failed: ", r), cs))

send_message(contact, message, rc, r) ==
    LET id == resolve_chat_id(contact, rc)
        cs == Invoke("sendMessage", [chatId |-> id.val, message |-> message], r,
                     id.calls)
    IN  Guard(IF id.raised THEN id
              ELSE IF Raised(r) THEN Exc(<<r.repr>>, cs)
              ELSE IF r.code = 200
                   THEN Ret(<<"Message sent to ">> \o contact \o <<".">>, cs)
                   ELSE Ret(FailedText("Failed: ", r), cs))

\* get_chats: group is None or a bool, count is None or an int
NoneArg == [some |-> FALSE, v |-> 0]
Some(v) == [some |-> TRUE, v |-> v]
GroupArgs == {[some |-> FALSE, v |-> FALSE]} \cup {[some |-> TRUE, v |-> b] : b \in BOOLEAN}
CountArgs == {NoneArg} \cup {Some(n) : n \in -1..2}

\* [c for c in contacts if (c.get("type") == "group") == group]
GroupFilter(cl, group) ==
    LET F[i \in 0..Len(cl)] ==
            IF i = 0 THEN <<>>
            ELSE IF (DictGet(cl[i], "type", "") = "group") = group
                 THEN Append(F[i - 1], cl[i]) ELSE F[i - 1]
    IN  F[Len(cl)]

ChatLine(c) ==
    LET n1 == DictGet(c, "name", <<>>)
        n2 == DictGet(c, "contactName", <<>>)
        name == IF n1 # <<>> THEN n1 ELSE IF n2 # <<>> THEN n2 ELSE <<"No name">>
    IN  name \o <<" (">> \o c.id \o <<") [", DictGet(c, "type", ""), "]">>

get_chats(group, count, r) ==
    LET cs == Invoke("getContacts", <<>>, r, <<>>)
        c1 == IF group.some THEN GroupFilter(r.data, group.v) ELSE r.data
        c2 == IF count.some THEN SliceTo(c1, count.v) ELSE c1
    IN  Guard(IF Raised(r) THEN Exc(<<r.repr>>, cs)
              ELSE IF r.code # 200 THEN Ret(FailedText("Failed: ", r), cs)
              ELSE IF c2 = <<>>
                   THEN Ret(<<"No contacts found. If this persists, try rescanning the QR code or contact support.">>, cs)
                   ELSE Ret(Join(<<"\n">>, [i \in 1..Len(c2) |-> ChatLine(c2[i])]), cs))

\* create_group: the loop of lines 89-96 over the participants; rs[i] is the
\* gateway's answer to the contact-list fetch made for participant i, if any
NeedsLookup(p) ==
    ~EndsWith(p, <<"@c.us">>) /\ ~EndsWith(p, <<"@g.us">>) /\ ~IsDigit(p)

ChatIdsOf(ps, rs) ==
    LET F[i \in 0..Len(ps)] ==
            IF i = 0 THEN [raised |-> FALSE, val |-> <<>>, calls |-> <<>>, ids |-> <<>>]
            ELSE LET prev == F[i - 1]
                     p == ps[i]
                     o == resolve_chat_id(p, rs[i])
                 IN  IF prev.raised THEN prev
                     ELSE IF EndsWith(p, <<"@c.us">>) \/ EndsWith(p, <<"@g.us">>)
                          THEN [prev EXCEPT !.ids = Append(@, p)]
                     ELSE IF IsDigit(p)
                          THEN [prev EXCEPT !.ids = Append(@, p \o <<"@c.us">>)]
                     ELSE IF o.raised
                          THEN [prev EXCEPT !.raised = TRUE, !.val = o.val,
                                            !.calls = @ \o o.calls]
                          ELSE [prev EXCEPT !.ids = Append(@, o.val),
                                            !.calls = @ \o o.calls]
    IN  F[Len(ps)]

GroupData ==
    { [created |-> TRUE, chatId |-> "9@g.us", groupInviteLink |-> "https://chat/9"],
      [created |-> TRUE, chatId |-> "9@g.us"],
      [created |-> FALSE] }
GroupResps == Responses(GroupData, [error |-> TRUE])

create_group(group_name, participants, rs, r) ==
    LET ids == ChatIdsOf(participants, rs)
        cs == Invoke("createGroup", [groupName |-> group_name, chatIds |-> ids.ids], r,
                     ids.calls)
    IN  Guard(IF ids.raised THEN Exc(ids.val, ids.calls)
              ELSE IF Raised(r) THEN Exc(<<r.repr>>, cs)
              ELSE IF r.code = 200 /\ Truthy(r.data, "created")
                   THEN Ret(<<"Group '">> \o group_name \o
                            <<"' created!\n", "Group ID: ",
                              DictGet(r.data, "chatId", "None"), "\n", "Invite Link: ",
                              DictGet(r.data, "groupInviteLink", "N/A")>>, cs)
                   ELSE Ret(FailedText("Failed: ", r), cs))

\* getGroupData: data.participants, a list of records with an id
ParticipantResps ==
    Responses({[participants |-> cl] : cl \in ContactLists} \cup {[owner |-> "1@c.us"]},
              [error |-> TRUE])

get_group_participants(group_id, r) ==
    LET cs == Invoke("getGroupData", group_id, r, <<>>)
        ps == DictGet(r.data, "participants", <<>>)
    IN  Guard(IF Raised(r) THEN Exc(<<r.repr>>, cs)
              ELSE IF r.code = 200
                   THEN Ret(Join(<<"\n">>, [i \in 1..Len(ps) |-> ps[i].id]), cs)
                   ELSE Ret(FailedText("Failed: ", r), cs))

mark_chat_unread(contact, rc, r) ==
    LET id == resolve_chat_id(contact, rc)
        cs == Invoke("readChat", id.val, r, id.calls)
    IN  Guard(IF id.raised THEN id
              ELSE IF Raised(r) THEN Exc(<<r.repr>>, cs)
              ELSE IF r.code = 200 THEN Ret(<<"Chat marked as unread.">>, cs)
              ELSE Ret(FailedText("Failed: ", r), cs))

ExistsResps ==
    Responses({[existsWhatsapp |-> b] : b \in BOOLEAN} \cup {[other |-> TRUE]},
              [error |-> TRUE])

check_whatsapp_number(phone, r) ==
    LET cs == Invoke("checkWhatsapp", phone, r, <<>>)
    IN  Guard(IF Raised(r) THEN Exc(<<r.repr>>, cs)
              ELSE IF r.code = 200
                   THEN IF Truthy(r.data, "existsWhatsapp")
                        THEN Ret(<<"Phone number has WhatsApp">>, cs)
                        ELSE Ret(<<"Phone number doesn't have WhatsApp">>, cs)
                   ELSE Ret(FailedText("Failed to check number: ", r), cs))

InfoResps ==
    Responses({[name |-> "Bob", phone |-> "1", status |-> "busy", avatar |-> "http://a"],
               [name |-> "Bob"]}, [error |-> TRUE])

get_contact_info(contact, rc, r) ==
    LET id == resolve_chat_id(contact, rc)
        cs == Invoke("getContactInfo", id.val, r, id.calls)
    IN  Guard(IF id.raised THEN id
              ELSE IF Raised(r) THEN Exc(<<r.repr>>, cs)
              ELSE IF r.code = 200
                   THEN Ret(<<"Contact Info:\n",
                              "Name: ", DictGet(r.data, "name", "Unknown"), "\n",
                              "Phone: ", DictGet(r.data, "phone", "Unknown"), "\n",
                              "Status: ", DictGet(r.data, "status", "Unknown"), "\n",
                              "Avatar: ", DictGet(r.data, "avatar", "No avatar")>>, cs)
                   ELSE Ret(FailedText("Failed to get contact info: ", r), cs))

MessageResps ==
    Responses({[textMessageData |-> [textMessage |-> "hello"]], [idMessage |-> "M1"]},
              [error |-> TRUE])

get_message(message_id, r) ==
    LET cs == Invoke("getMessage", message_id, r, <<>>)
        td == DictGet(r.data, "textMessageData", <<>>)
    IN  Guard(IF Raised(r) THEN Exc(<<r.repr>>, cs)
              ELSE IF r.code = 200
                   THEN Ret(<<"Message: ", DictGet(td, "textMessage", "No text")>>, cs)
                   ELSE Ret(FailedText("Failed to retrieve message: ", r), cs))

\* update_profile_picture: exists is os.path.exists(image_path)
update_profile_picture(image_path, exists, r) ==
    LET cs == Invoke("setProfilePicture", image_path, r, <<>>)
    IN  Guard(IF ~exists THEN Ret(<<"Error: Image file not found">>, <<>>)
              ELSE IF Raised(r) THEN Exc(<<r.repr>>, cs)
              ELSE IF r.code = 200 THEN Ret(<<"Profile picture updated successfully">>, cs)
              ELSE Ret(FailedText("Failed: ", r), cs))

(* --------------------------- message tools ----------------------------- *)
MediaTypes ==
    {"imageMessage", "videoMessage", "documentMessage", "audioMessage", "stickerMessage"}

\* message_type.replace("Message", "")
FileType(t) ==
    CASE t = "imageMessage" -> "image"
      [] t = "videoMessage" -> "video"
      [] t = "documentMessage" -> "document"
      [] t = "audioMessage" -> "audio"
      [] t = "stickerMessage" -> "sticker"
      [] OTHER -> t

\* lines 181-184 of view_messages
ViewAnnotations(msg) ==
    IF Truthy(msg, "isDeleted") THEN <<" (deleted)">>
    ELSE IF Truthy(msg, "isEdited") THEN <<" (edited)">>
    ELSE <<>>

\* one iteration of the loop of lines 142-184
ViewBlock(msg) ==
    LET timestamp == DictGet(msg, "timestamp", "Unknown")
        message_type == DictGet(msg, "typeMessage", "Unknown")
        outgoing == DictGet(msg, "type", "") = "outgoing"
        sender == DictGet(msg, "senderName", IF outgoing THEN "You" ELSE "Unknown")
        status == IF outgoing
                  THEN <<" [", DictGet(msg, "statusMessage", "unknown"), "]">>
                  ELSE <<>>
        head == <<"[", timestamp, "] ", sender>> \o status
        location == DictGet(msg, "location", <<>>)
        contact_data == DictGet(msg, "contact", <<>>)
        poll_data == DictGet(msg, "pollMessageData", <<>>)
        options == DictGet(poll_data, "options", <<>>)
        votes == DictGet(poll_data, "votes", <<>>)
        body ==
            CASE message_type = "textMessage" ->
                    head \o <<": ", DictGet(msg, "textMessage", "No text")>>
              [] message_type \in MediaTypes ->
                    head \o <<" sent ", FileType(message_type), ": ",
                              DictGet(msg, "caption", ""), " (URL: ",
                              DictGet(msg, "downloadUrl", "No URL"), ")">>
              [] message_type = "locationMessage" ->
                    head \o <<" shared location: ",
                              DictGet(location, "nameLocation", "Unknown location"),
                              " (", DictGet(location, "latitude", "?"), ", ",
                              DictGet(location, "longitude", "?"), ")">>
              [] message_type = "contactMessage" ->
                    head \o <<" shared contact: ",
                              DictGet(contact_data, "displayName", "Unknown contact")>>
              [] message_type = "pollMessage" ->
                    head \o <<" created poll: ", DictGet(poll_data, "name", "Unknown poll"),
                              " [Options: ">>
                         \o Join(<<", ">>, [i \in 1..Len(options) |->
                                              <<DictGet(options[i], "optionName", "")>>])
                         \o <<"]">>
              [] message_type = "pollUpdateMessage" ->
                    <<"[", timestamp, "] Poll update for '",
                      DictGet(poll_data, "name", "Unknown poll"), "' - Votes: ">>
                         \o Join(<<", ">>, [i \in 1..Len(votes) |->
                                              <<votes[i].optionName, ": ",
                                                ToString(Len(votes[i].optionVoters))>>])
              [] message_type = "quotedMessage" ->
                    head \o <<" replied to ",
                              DictGet(DictGet(msg, "quotedMessage", <<>>), "typeMessage",
                                      "unknown"), ": ",
                              DictGet(DictGet(msg, "extendedTextMessage", <<>>), "text",
                                      "No text")>>
              [] OTHER -> head \o <<" sent ", message_type>>
    IN  body \o ViewAnnotations(msg)

\* the clamp without its upper bound
ClampLimitNoUpper(limit) == IF limit > 1 THEN limit ELSE 1

\* max(1, min(100, int(limit))); limit is an int, as the tool declares it, so
\* int(limit) returns it and the except ValueError of line 133 is not taken
ClampLimit(limit) ==
    LET lo == IF limit < 100 THEN limit ELSE 100
    IN  IF lo > 1 THEN lo ELSE 1

\* the history rendered in gateway order
ViewOrderKept(data) == data

\* messages = response.data[::-1]
ViewOrder(data) == Reverse(data)

\* "\n\n".join(formatted_messages) if formatted_messages else "No messages found"
JoinBlocks(blocks) ==
    IF blocks = <<>> THEN <<"No messages found">> ELSE Join(<<"\n\n">>, blocks)

view_messages(contact, limit, rc, r) ==
    LET id == resolve_chat_id(contact, rc)
        count == ClampLimit(limit)
        cs == Invoke("getChatHistory", [chatId |-> id.val, count |-> count], r, id.calls)
        messages == ViewOrder(r.data)
    IN  Guard(IF id.raised THEN id
              ELSE IF Raised(r) THEN Exc(<<r.repr>>, cs)
              ELSE IF r.code # 200 \/ r.data = <<>>
                   THEN Ret(FailedText("Failed to get messages: ", r), cs)
                   ELSE Ret(JoinBlocks([i \in 1..Len(messages) |-> ViewBlock(messages[i])]),
                            cs))

\* lines 235-240 of get_last_incoming_messages
IncomingAnnotations(msg) ==
    (IF Truthy(msg, "isForwarded")
     THEN <<" (forwarded ", DictGet(msg, "forwardingScore", "1"), "x)">> ELSE <<>>)
    \o (IF Truthy(msg, "isDeleted") THEN <<" (deleted)">> ELSE <<>>)
    \o (IF Truthy(msg, "isEdited") THEN <<" (edited)">> ELSE <<>>)

\* one iteration of the loop of lines 213-240
IncomingBlock(msg) ==
    LET timestamp == DictGet(msg, "timestamp", "Unknown")
        sender == DictGet(msg, "senderName", DictGet(msg, "senderContactName", "Unknown"))
        chat_id == DictGet(msg, "chatId", "Unknown Chat")
        message_type == DictGet(msg, "typeMessage", "Unknown")
        head == <<"[", timestamp, "] ", sender, " (", chat_id, ")">>
        body ==
            CASE message_type = "textMessage" ->
                    head \o <<": ", DictGet(msg, "textMessage", "No text")>>
              [] message_type \in MediaTypes ->
                    head \o <<" sent ", FileType(message_type), ": ",
                              DictGet(msg, "caption", ""), " (URL: ",
                              DictGet(msg, "downloadUrl", "No URL"), ")">>
              [] message_type = "locationMessage" ->
                    head \o <<" shared location: ",
                              DictGet(DictGet(msg, "location", <<>>), "nameLocation",
                                      "Unknown location")>>
              [] message_type = "contactMessage" ->
                    head \o <<" shared contact: ",
                              DictGet(DictGet(msg, "contact", <<>>), "displayName",
                                      "Unknown contact")>>
              [] OTHER -> head \o <<" sent ", message_type>>
    IN  body \o IncomingAnnotations(msg)

\* max(1, int(minutes))
ClampMinutes(minutes) == IF minutes > 1 THEN minutes ELSE 1

IncomingOrder(data) == Reverse(data)

get_last_incoming_messages(minutes, r) ==
    LET cs == Invoke("lastIncomingMessages", ClampMinutes(minutes), r, <<>>)
        messages == IncomingOrder(r.data)
    IN  Guard(IF Raised(r) THEN Exc(<<r.repr>>, cs)
              ELSE IF r.code # 200 \/ r.data = <<>>
                   THEN Ret(FailedText("Failed to get messages: ", r), cs)
                   ELSE Ret(JoinBlocks([i \in 1..Len(messages) |->
                                            IncomingBlock(messages[i])]), cs))

\* lines 292-297 of get_last_outgoing_messages
OutgoingAnnotations(msg) ==
    (IF Truthy(msg, "sendByApi") THEN <<" (sent via API)">> ELSE <<>>)
    \o (IF Truthy(msg, "isDeleted") THEN <<" (deleted)">> ELSE <<>>)
    \o (IF Truthy(msg, "isEdited") THEN <<" (edited)">> ELSE <<>>)

\* one iteration of the loop of lines 259-297
OutgoingBlock(msg) ==
    LET timestamp == DictGet(msg, "timestamp", "Unknown")
        message_id == DictGet(msg, "idMessage", "Unknown")
        chat_id == DictGet(msg, "chatId", "Unknown Chat")
        status == DictGet(msg, "statusMessage", "unknown")
        message_type == DictGet(msg, "typeMessage", "Unknown")
        head == <<"[", timestamp, "] ID: ", message_id, " To ", chat_id,
                  " [", status, "]">>
        extended_data == DictGet(msg, "extendedTextMessage", <<>>)
        title == DictGet(extended_data, "title", "")
        description == DictGet(extended_data, "description", "")
        body ==
            CASE message_type = "extendedTextMessage" ->
                    head \o <<": ", DictGet(extended_data, "text",
                                            DictGet(msg, "textMessage", "No text"))>>
                         \o (IF title # "" \/ description # ""
                             THEN <<"\nTitle: ", title, "\nDescription: ", description>>
                             ELSE <<>>)
                         \o (IF Truthy(extended_data, "isForwarded")
                             THEN <<" (forwarded ",
                                    DictGet(extended_data, "forwardingScore", "1"), "x)">>
                             ELSE <<>>)
              [] message_type = "textMessage" ->
                    head \o <<": ", DictGet(msg, "textMessage", "No text")>>
              [] message_type \in MediaTypes ->
                    head \o <<" sent ", FileType(message_type), ": ",
                              DictGet(msg, "caption", ""), " (URL: ",
                              DictGet(msg, "downloadUrl", "No URL"), ")">>
              [] OTHER -> head \o <<" sent ", message_type>>
    IN  body \o OutgoingAnnotations(msg)

OutgoingOrder(data) == Reverse(data)

get_last_outgoing_messages(minutes, r) ==
    LET cs == Invoke("lastOutgoingMessages", ClampMinutes(minutes), r, <<>>)
        messages == OutgoingOrder(r.data)
    IN  Guard(IF Raised(r) THEN Exc(<<r.repr>>, cs)
              ELSE IF r.code # 200
                   THEN Ret(FailedText("Failed to get messages: ", r), cs)
              ELSE IF r.data = <<>> THEN Ret(<<"No outgoing messages found">>, cs)
              ELSE Ret(Join(<<"\n\n">>, [i \in 1..Len(messages) |->
                                            OutgoingBlock(messages[i])]), cs))

(* ---------------------------- account tools ---------------------------- *)
\* The tools that await asyncio.gather(...) of several to_thread calls.  e is
\* the exception gather propagated (<<>> when every call returned); the other
\* parameters are the responses gather returned.
\* the facet list with the WA settings facet forgotten
FailedFacetsShort(state, status, wa_settings, settings) ==
    (IF state.code # 200 THEN <<<<"state">>>> ELSE <<>>)
    \o (IF status.code # 200 THEN <<<<"status">>>> ELSE <<>>)
    \o (IF settings.code # 200 THEN <<<<"account settings">>>> ELSE <<>>)

FailedFacets(state, status, wa_settings, settings) ==
    (IF state.code # 200 THEN <<<<"state">>>> ELSE <<>>)
    \o (IF status.code # 200 THEN <<<<"status">>>> ELSE <<>>)
    \o (IF wa_settings.code # 200 THEN <<<<"WA settings">>>> ELSE <<>>)
    \o (IF settings.code # 200 THEN <<<<"account settings">>>> ELSE <<>>)

AccountBlock(state_data, status_data, wa_data, settings_data) ==
    <<"WhatsApp Account Status:\n",
      "Phone Number: ", DictGet(wa_data, "phone", "Unknown"), "\n",
      "State: ", DictGet(state_data, "stateInstance", "Unknown"), "\n",
      "Connection: ", DictGet(status_data, "statusInstance", "Unknown"), "\n",
      "Avatar URL: ", DictGet(wa_data, "avatar", "No avatar"), "\n",
      "Device ID: ", DictGet(wa_data, "deviceId", "Unknown"), "\n\n",
      "Account Settings:\n",
      "Webhook URL: ", DictGet(settings_data, "webhookUrl", "Not set"), "\n",
      "Message Delay: ", DictGet(settings_data, "delaySendMessagesMilliseconds", "0"),
      "ms\n",
      "Mark Messages Read: ", DictGet(settings_data, "markIncomingMessagesReaded", "no"),
      "\n",
      "Keep Online: ", DictGet(settings_data, "keepOnlineStatus", "no"), "\n",
      "Notifications:\n",
      "- Incoming: ", DictGet(settings_data, "incomingWebhook", "no"), "\n",
      "- Outgoing: ", DictGet(settings_data, "outgoingWebhook", "no"), "\n",
      "- Calls: ", DictGet(settings_data, "incomingCallWebhook", "no"), "\n",
      "- Polls: ", DictGet(settings_data, "pollMessageWebhook", "no"), "\n",
      "- Edits: ", DictGet(settings_data, "editedMessageWebhook", "no"), "\n",
      "- Deletions: ", DictGet(settings_data, "deletedMessageWebhook", "no")>>

get_my_details(e, state, status, wa_settings, settings) ==
    Guard(IF e # <<>> THEN Exc(e, <<>>)
          ELSE IF FailedFacets(state, status, wa_settings, settings) # <<>>
               THEN Ret(<<"Failed to get: ">>
                        \o Join(<<", ">>, FailedFacets(state, status, wa_settings, settings)),
                        <<>>)
               ELSE Ret(AccountBlock(state.data, status.data, wa_settings.data,
                                     settings.data), <<>>))

get_account_status(e, state, status) ==
    Guard(IF e # <<>> THEN Exc(e, <<>>)
          ELSE IF state.code # 200 \/ status.code # 200
               THEN Ret(<<"Failed to get account status">>, <<>>)
               ELSE Ret(<<"Account Status:\n",
                          "State: ", DictGet(state.data, "stateInstance", "Unknown"), "\n",
                          "Status: ", DictGet(status.data, "statusInstance", "Unknown"), "\n",
                          "Substatus: ",
                          DictGet(status.data, "subStatusInstance", "Unknown")>>, <<>>))

(* ------------------------------- state --------------------------------- *)
NoResult == [kind |-> "none", text |-> <<>>]
Returned(t) == [kind |-> "return", text |-> t]
Propagated(t) == [kind |-> "raise", text |-> t]

Init ==
    /\ pc = "idle"
    /\ tool = "none"
    /\ args = [none |-> TRUE]
    /\ calls = <<>>
    /\ result = NoResult
    /\ inflight = {}
    /\ exc = <<>>

\* a tool or function that runs without a concurrent join finishes in one step
Finish(t, a, cs, res) ==
    /\ pc = "idle"
    /\ pc' = "done"
    /\ tool' = t
    /\ args' = a
    /\ calls' = cs
    /\ result' = res
    /\ UNCHANGED <<inflight, exc>>

Outcome(o) == IF o.raised THEN Propagated(o.val) ELSE Returned(o.val)

\* resolve_chat_id called on its own; args.gateway is what the gateway answers
\* to getContacts at that moment, whether or not the call is made
ResolveChatId ==
    /\ pc = "idle"
    /\ \E ref \in Refs, r \in ContactResps :
        LET o == resolve_chat_id(ref, r)
        IN  Finish("resolve_chat_id", [contact |-> ref, gateway |-> r], o.calls,
                   Outcome(o))

OpenSession ==
    /\ pc = "idle"
    /\ \E r \in PlainResps :
        LET o == open_session(r)
        IN  Finish("open_session", [none |-> TRUE], o.calls, Outcome(o))

SendMessage ==
    /\ pc = "idle"
    /\ \E contact \in ToolRefs, message \in Texts, rc \in ContactResps, r \in PlainResps :
        LET o == send_message(contact, message, rc, r)
        IN  Finish("send_message", [contact |-> contact, message |-> message],
                   o.calls, Outcome(o))

GetChats ==
    /\ pc = "idle"
    /\ \E group \in GroupArgs, count \in CountArgs, r \in ContactResps :
        LET o == get_chats(group, count, r)
        IN  Finish("get_chats", [group |-> group, count |-> count], o.calls, Outcome(o))

PartRefs == {<<"1">>, <<"a">>, <<"1", "@c.us">>, <<"1", "@g.us">>}
Statuses == {"ok", "fail", "raise"}

\* the gateway's contact list stays cl during one create_group; each fetch of
\* it succeeds, returns a non-success code, or raises
FetchResp(st, cl) ==
    CHOOSE r \in Responses({cl}, <<>>) :
        IF st = "ok" THEN Ok(r) ELSE IF st = "raise" THEN Raised(r)
        ELSE ~Ok(r) /\ ~Raised(r)

CreateGroup ==
    /\ pc = "idle"
    /\ \E ps \in SeqsUpTo(PartRefs, MaxParticipants), cl \in ContactLists, r \in GroupResps :
        \E st \in [1..Len(ps) -> Statuses] :
            /\ \A i \in 1..Len(ps) : ~NeedsLookup(ps[i]) => st[i] = "ok"
            /\ LET rs == [i \in 1..Len(ps) |-> FetchResp(st[i], cl)]
                   o == create_group(<<"team">>, ps, rs, r)
               IN  Finish("create_group", [group_name |-> <<"team">>, participants |-> ps],
                          o.calls, Outcome(o))

GetGroupParticipants ==
    /\ pc = "idle"
    /\ \E r \in ParticipantResps :
        LET o == get_group_participants(<<"1", "@g.us">>, r)
        IN  Finish("get_group_participants", [group_id |-> <<"1", "@g.us">>],
                   o.calls, Outcome(o))

MarkChatUnread ==
    /\ pc = "idle"
    /\ \E contact \in ToolRefs, rc \in ContactResps, r \in PlainResps :
        LET o == mark_chat_unread(contact, rc, r)
        IN  Finish("mark_chat_unread", [contact |-> contact], o.calls, Outcome(o))

CheckWhatsappNumber ==
    /\ pc = "idle"
    /\ \E phone \in {<<"1">>, <<"a">>}, r \in ExistsResps :
        LET o == check_whatsapp_number(phone, r)
        IN  Finish("check_whatsapp_number", [phone |-> phone], o.calls, Outcome(o))

GetContactInfo ==
    /\ pc = "idle"
    /\ \E contact \in ToolRefs, rc \in ContactResps, r \in InfoResps :
        LET o == get_contact_info(contact, rc, r)
        IN  Finish("get_contact_info", [contact |-> contact], o.calls, Outcome(o))

GetMessage ==
    /\ pc = "idle"
    /\ \E r \in MessageResps :
        LET o == get_message(<<"M1">>, r)
        IN  Finish("get_message", [message_id |-> <<"M1">>], o.calls, Outcome(o))

UpdateProfilePicture ==
    /\ pc = "idle"
    /\ \E exists \in BOOLEAN, r \in PlainResps :
        LET o == update_profile_picture(<<"me.png">>, exists, r)
        IN  Finish("update_profile_picture", [image_path |-> <<"me.png">>, exists |-> exists],
                   o.calls, Outcome(o))

\* chat history as getChatHistory returns it, newest first
ViewMsgs ==
    { [timestamp |-> "1004", typeMessage |-> "textMessage", type |-> "incoming",
       senderName |-> "Bob", textMessage |-> "hello"],
      [timestamp |-> "1003", typeMessage |-> "imageMessage", type |-> "outgoing",
       statusMessage |-> "read", caption |-> "pic", downloadUrl |-> "http://u",
       isDeleted |-> TRUE, isEdited |-> FALSE],
      [timestamp |-> "1002", typeMessage |-> "reactionMessage", type |-> "incoming",
       senderName |-> "Bob", isEdited |-> TRUE],
      [timestamp |-> "1001", typeMessage |-> "textMessage", type |-> "outgoing",
       textMessage |-> "bye", isDeleted |-> TRUE, isEdited |-> TRUE] }
ViewResps == Responses(SeqsUpTo(ViewMsgs, MaxMsgs), <<>>)
Limits == {-1, 0, 1, 5, 100, 101, 500}

ViewMessages ==
    /\ pc = "idle"
    /\ \E contact \in ToolRefs, limit \in Limits, rc \in ContactResps, r \in ViewResps :
        LET o == view_messages(contact, limit, rc, r)
        IN  Finish("view_messages", [contact |-> contact, limit |-> limit],
                   o.calls, Outcome(o))

\* the journal of incoming messages as lastIncomingMessages returns it
IncomingMsgs ==
    { [timestamp |-> "2004", typeMessage |-> "textMessage", senderName |-> "Bob",
       chatId |-> "1@c.us", textMessage |-> "hello"],
      [timestamp |-> "2003", typeMessage |-> "imageMessage", senderContactName |-> "Al",
       chatId |-> "1@g.us", caption |-> "pic", downloadUrl |-> "http://u",
       isForwarded |-> TRUE, forwardingScore |-> "3", isDeleted |-> TRUE,
       isEdited |-> TRUE],
      [timestamp |-> "2002", typeMessage |-> "locationMessage", senderName |-> "Bob",
       chatId |-> "1@c.us", location |-> [nameLocation |-> "home"], isEdited |-> TRUE],
      [timestamp |-> "2001", typeMessage |-> "contactMessage", chatId |-> "1@c.us",
       contact |-> [displayName |-> "Al"], isForwarded |-> TRUE, isDeleted |-> TRUE],
      [timestamp |-> "2000", typeMessage |-> "reactionMessage", senderName |-> "Bob",
       isDeleted |-> TRUE, isEdited |-> TRUE] }
IncomingResps == Responses(SeqsUpTo(IncomingMsgs, MaxMsgs), <<>>)

\* the journal of outgoing messages as lastOutgoingMessages returns it
OutgoingMsgs ==
    { [timestamp |-> "3004", idMessage |-> "M4", typeMessage |-> "extendedTextMessage",
       chatId |-> "1@c.us", statusMessage |-> "sent",
       extendedTextMessage |-> [text |-> "see", title |-> "T", description |-> "D",
                                isForwarded |-> TRUE]],
      [timestamp |-> "3003", idMessage |-> "M3", typeMessage |-> "textMessage",
       chatId |-> "1@c.us", statusMessage |-> "read", textMessage |-> "bye",
       sendByApi |-> TRUE, isDeleted |-> TRUE, isEdited |-> TRUE],
      [timestamp |-> "3002", idMessage |-> "M2", typeMessage |-> "imageMessage",
       chatId |-> "1@g.us", caption |-> "pic", downloadUrl |-> "http://u",
       isEdited |-> TRUE],
      [timestamp |-> "3001", idMessage |-> "M1", typeMessage |-> "pollMessage",
       chatId |-> "1@c.us", sendByApi |-> TRUE, isDeleted |-> TRUE],
      [timestamp |-> "3000", typeMessage |-> "textMessage", isDeleted |-> TRUE,
       isEdited |-> TRUE] }
OutgoingResps == Responses(SeqsUpTo(OutgoingMsgs, MaxMsgs), <<>>)

Minutes == {-5, 0, 1, 1440}

GetLastIncomingMessages ==
    /\ pc = "idle"
    /\ \E minutes \in Minutes, r \in IncomingResps :
        LET o == get_last_incoming_messages(minutes, r)
        IN  Finish("get_last_incoming_messages", [minutes |-> minutes],
                   o.calls, Outcome(o))

GetLastOutgoingMessages ==
    /\ pc = "idle"
    /\ \E minutes \in Minutes, r \in OutgoingResps :
        LET o == get_last_outgoing_messages(minutes, r)
        IN  Finish("get_last_outgoing_messages", [minutes |-> minutes],
                   o.calls, Outcome(o))

\* what each account method answers
AccountData(m) ==
    CASE m = "getStateInstance" -> [stateInstance |-> "authorized"]
      [] m = "getStatusInstance" -> [statusInstance |-> "online"]
      [] m = "getWaSettings" -> [phone |-> "1", deviceId |-> "d1"]
      [] m = "getSettings" -> [webhookUrl |-> "http://w", incomingWebhook |-> "yes"]

\* an account call that raises raises with a message naming the call
AccountResps(m) ==
    { [out |-> "ok", code |-> 200, data |-> AccountData(m), repr |-> "<data>"],
      [out |-> "ok", code |-> 401, data |-> [error |-> TRUE], repr |-> "<error payload>"],
      [out |-> "raise", code |-> 0, data |-> [error |-> TRUE], repr |-> m] }

Pending == [out |-> "pending", code |-> 0, data |-> [error |-> TRUE], repr |-> ""]

DetailsMethods == <<"getStateInstance", "getStatusInstance", "getWaSettings", "getSettings">>
StatusMethods == <<"getStateInstance", "getStatusInstance">>

RespOf(m) == calls[CHOOSE i \in 1..Len(calls) : calls[i].m = m].resp

\* asyncio.gather(asyncio.to_thread(...), ...): every call is started
GatherStart(t, methods) ==
    /\ pc = "idle"
    /\ pc' = "gather"
    /\ tool' = t
    /\ args' = [none |-> TRUE]
    /\ calls' = [i \in 1..Len(methods) |-> Call(methods[i], <<>>, Pending)]
    /\ inflight' = {methods[i] : i \in 1..Len(methods)}
    /\ exc' = <<>>
    /\ UNCHANGED result

GetMyDetailsStart == GatherStart("get_my_details", DetailsMethods)

GetAccountStatusStart == GatherStart("get_account_status", StatusMethods)

\* one started call finishes in its thread: it returns a response or raises.
\* The first raise is what gather propagates; a call may also finish after
\* the tool has returned.
SubReturn ==
    /\ pc \in {"gather", "done"}
    /\ \E m \in inflight : \E r \in AccountResps(m) :
        /\ inflight' = inflight \ {m}
        /\ calls' = [i \in 1..Len(calls) |->
                        IF calls[i].m = m THEN Call(m, <<>>, r) ELSE calls[i]]
        /\ exc' = IF pc = "gather" /\ exc = <<>> /\ Raised(r) THEN <<r.repr>> ELSE exc
    /\ UNCHANGED <<pc, tool, args, result>>

\* gather is done once a call has raised or all have returned
GatherDone == exc # <<>> \/ inflight = {}

GetMyDetailsResume ==
    /\ pc = "gather"
    /\ tool = "get_my_details"
    /\ GatherDone
    /\ pc' = "done"
    /\ result' = Outcome(get_my_details(exc, RespOf("getStateInstance"),
                                        RespOf("getStatusInstance"),
                                        RespOf("getWaSettings"), RespOf("getSettings")))
    /\ UNCHANGED <<tool, args, calls, inflight, exc>>

GetAccountStatusResume ==
    /\ pc = "gather"
    /\ tool = "get_account_status"
    /\ GatherDone
    /\ pc' = "done"
    /\ result' = Outcome(get_account_status(exc, RespOf("getStateInstance"),
                                            RespOf("getStatusInstance")))
    /\ UNCHANGED <<tool, args, calls, inflight, exc>>

\* the result reaches the caller; the next invocation is independent
Return ==
    /\ pc = "done"
    /\ pc' = "idle"
    /\ tool' = "none"
    /\ args' = [none |-> TRUE]
    /\ calls' = <<>>
    /\ result' = NoResult
    /\ inflight' = {}
    /\ exc' = <<>>

Next ==
    \/ ResolveChatId
    \/ OpenSession
    \/ SendMessage
    \/ GetChats
    \/ ViewMessages
    \/ GetLastIncomingMessages
    \/ GetLastOutgoingMessages
    \/ CreateGroup
    \/ GetGroupParticipants
    \/ MarkChatUnread
    \/ CheckWhatsappNumber
    \/ GetContactInfo
    \/ GetMessage
    \/ UpdateProfilePicture
    \/ GetMyDetailsStart
    \/ GetAccountStatusStart
    \/ SubReturn
    \/ GetMyDetailsResume
    \/ GetAccountStatusResume
    \/ Return

Spec == Init /\ [][Next]_vars

(* ------------------------------ claims --------------------------------- *)
Resolved == pc = "done" /\ tool = "resolve_chat_id"
Suffixed(ref) == EndsWith(ref, <<"@c.us">>) \/ EndsWith(ref, <<"@g.us">>)
Fetched == \E i \in 1..Len(calls) : calls[i].m = "getContacts"

\* C1: a reference that ends with "@c.us" or "@g.us" is returned unchanged by
\* resolve_chat_id, and the contact list is not fetched.
C1_SuffixedUnchanged ==
    (Resolved /\ Suffixed(args.contact))
        => (result = Returned(args.contact) /\ ~Fetched)

\* C2: a reference made of one or more decimal digits resolves to
\* <digits>@c.us, and getContacts is never called on that path.
DecimalDigits == {"0", "1", "2", "3", "4", "5", "6", "7", "8", "9"}
AllDecimal(ref) == Len(ref) >= 1 /\ \A i \in 1..Len(ref) : ref[i] \in DecimalDigits

C2_DigitsNoFetch ==
    (Resolved /\ AllDecimal(args.contact))
        => (result = Returned(args.contact \o <<"@c.us">>) /\ calls = <<>>)

C2_Witness ==
    /\ Resolved
    /\ args.contact = <<"1", "1">>
    /\ result = Returned(<<"1", "1", "@c.us">>)

\* C3: for a reference that is neither all digits nor suffixed, and a gateway
\* whose contact-list fetch succeeds, resolve_chat_id returns the id of the
\* first contact in gateway order whose name contains the reference
\* case-insensitively, and raises "Contact '<reference>' not found." when no
\* contact matches.
C3_FirstMatchOrNotFound ==
    (/\ Resolved
     /\ ~AllDecimal(args.contact)
     /\ ~Suffixed(args.contact)
     /\ Ok(args.gateway))
        => LET ref == args.contact
               cl == args.gateway.data
               hits == {i \in 1..Len(cl) :
                           Contains(Lower(DictGet(cl[i], "name", <<>>)), Lower(ref))}
           IN  IF hits = {}
               THEN result = Propagated(<<"Contact '">> \o ref \o <<"' not found.">>)
               ELSE \E i \in hits :
                       /\ \A j \in hits : i <= j
                       /\ result = Returned(cl[i].id)
(* the tools, and what a finished invocation shows *)
Tools ==
    {"open_session", "send_message", "get_chats", "create_group",
     "get_group_participants", "view_messages", "get_message",
     "get_last_incoming_messages", "get_last_outgoing_messages", "mark_chat_unread",
     "check_whatsapp_number", "get_contact_info", "get_my_details",
     "update_profile_picture", "get_account_status"}
GatherTools == {"get_my_details", "get_account_status"}
MessageTools ==
    {"view_messages", "get_last_incoming_messages", "get_last_outgoing_messages"}

ToolDone == pc = "done" /\ tool \in Tools
SomeCallRaised == \E i \in 1..Len(calls) : Raised(calls[i].resp)
BeginsWithError(text) == Len(text) >= 1 /\ text[1] = "Error: "
Range(f) == {f[i] : i \in DOMAIN f}

\* C4: a tool never lets an exception out, and when a gateway call it made
\* raised (inside resolve_chat_id or one of the gathered calls included) the
\* text it returns begins with "Error:".
C4_RaiseBecomesErrorText ==
    ToolDone =>
        /\ result.kind = "return"
        /\ SomeCallRaised => BeginsWithError(result.text)

C4_Witness ==
    /\ pc = "done"
    /\ tool = "create_group"
    /\ Len(args.participants) = 2
    /\ calls[Len(calls)].m = "getContacts"
    /\ Raised(calls[Len(calls)].resp)
    /\ result = Returned(<<"Error: ", "connection refused">>)

\* the last gateway call of a message tool, and the messages it returned
LastCall == calls[Len(calls)]
Journal == LastCall.resp.data
GotMessages ==
    /\ pc = "done"
    /\ tool \in MessageTools
    /\ calls # <<>>
    /\ LastCall.m \in {"getChatHistory", "lastIncomingMessages", "lastOutgoingMessages"}
    /\ Ok(LastCall.resp)
    /\ Journal # <<>>

\* the blocks of a rendered text: the pieces between "\n\n" separators
RECURSIVE Blocks(_)
Blocks(text) ==
    LET seps == {i \in 1..Len(text) : text[i] = "\n\n"}
        k == CHOOSE i \in seps : \A j \in seps : i <= j
    IN  IF seps = {} THEN <<text>>
        ELSE <<SubSeq(text, 1, k - 1)>> \o Blocks(SubSeq(text, k + 1, Len(text)))

\* the timestamp a block shows: its second piece, after "["
StampOf(block) == block[2]

\* C5: the message tools render one block per returned message, in the
\* reverse of the order the gateway returned them.
C5_ReverseOrder ==
    GotMessages =>
        LET n == Len(Journal)
            out == Blocks(result.text)
        IN  /\ Len(out) = n
            /\ \A i \in 1..n : StampOf(out[i]) = Journal[n + 1 - i].timestamp

C5_Witness ==
    /\ GotMessages
    /\ tool = "view_messages"
    /\ Len(Journal) = 2
    /\ Journal[1].timestamp = "1004"
    /\ Journal[2].timestamp = "1001"
    /\ StampOf(Blocks(result.text)[1]) = "1001"
    /\ StampOf(Blocks(result.text)[2]) = "1004"

\* C6: view_messages asks getChatHistory for the limit clamped into [1,100]:
\* 100 for a limit above 100, 1 for a limit below 1, the limit itself
\* otherwise; and it returns what it returns for that clamped limit.
HistoryAsked ==
    /\ pc = "done"
    /\ tool = "view_messages"
    /\ calls # <<>>
    /\ LastCall.m = "getChatHistory"

Clamped(limit) == IF limit > 100 THEN 100 ELSE IF limit < 1 THEN 1 ELSE limit

C6_LimitClamped ==
    HistoryAsked =>
        /\ LastCall.arg.count = Clamped(args.limit)
        /\ Cardinality({i \in 1..Len(calls) : calls[i].m = "getChatHistory"}) = 1
        /\ result = Outcome(view_messages(args.contact, Clamped(args.limit),
                                          calls[1].resp, LastCall.resp))

C6_Witness ==
    /\ HistoryAsked
    /\ args.limit = 500
    /\ LastCall.arg.count = 100
    /\ Len(Journal) = 2

\* C7: when all four sub-fetches of get_my_details returned and at least one
\* has a non-success status, the text is a failure text naming exactly the
\* facets that failed, with no account data; the account block is rendered
\* only when all four succeeded.
DetailsJoined ==
    /\ pc = "done"
    /\ tool = "get_my_details"
    /\ inflight = {}
    /\ ~SomeCallRaised

FacetOf(m) ==
    CASE m = "getStateInstance" -> "state"
      [] m = "getStatusInstance" -> "status"
      [] m = "getWaSettings" -> "WA settings"
      [] m = "getSettings" -> "account settings"

FailedCalls == {i \in 1..Len(calls) : calls[i].resp.code # 200}

C7_FailedFacetsNamed ==
    DetailsJoined =>
        IF FailedCalls = {}
        THEN result.text[1] = "WhatsApp Account Status:\n"
        ELSE /\ result.text[1] = "Failed to get: "
             /\ \A i \in 1..Len(calls) :
                    FacetOf(calls[i].m) \in Range(result.text) <=> i \in FailedCalls
             /\ Range(result.text) \subseteq
                    {"Failed to get: ", ", "} \cup {FacetOf(calls[i].m) : i \in FailedCalls}

C7_Witness ==
    /\ DetailsJoined
    /\ FailedCalls = {3}
    /\ result = Returned(<<"Failed to get: ", "WA settings">>)

\* C8: every tool that gathers sub-requests reports, when a sub-request
\* returned a non-success status, which facets failed.
C8_GatherReportsFacets ==
    (/\ pc = "done"
     /\ tool \in GatherTools
     /\ inflight = {}
     /\ ~SomeCallRaised
     /\ FailedCalls # {})
        => \A i \in 1..Len(calls) :
               FacetOf(calls[i].m) \in Range(result.text) <=> i \in FailedCalls

\* C9: in every message tool a message with both isDeleted and isEdited set
\* is rendered with " (deleted)" then " (edited)" as the last two pieces of
\* its block.
C9_DeletedAndEdited ==
    GotMessages =>
        LET n == Len(Journal)
            out == Blocks(result.text)
        IN  \A i \in 1..n :
                LET msg == Journal[n + 1 - i]
                IN  (Truthy(msg, "isDeleted") /\ Truthy(msg, "isEdited"))
                        => /\ Len(out) = n
                           /\ Len(out[i]) >= 2
                           /\ SubSeq(out[i], Len(out[i]) - 1, Len(out[i]))
                                  = <<" (deleted)", " (edited)">>

\* C10: a gathering tool has its result only when none of the sub-calls it
\* started is still in flight.
C10_JoinBarrier ==
    (pc = "done" /\ tool \in GatherTools) => inflight = {}
\* the tools that resolve a contact reference, and the gateway operation each
\* issues once the reference is resolved
ResolvingTools ==
    {"send_message", "view_messages", "mark_chat_unread", "get_contact_info",
     "create_group"}
Downstream ==
    {"sendMessage", "getChatHistory", "readChat", "getContactInfo", "createGroup"}

\* the references looked up by name, in the order their fetches are made:
\* fetch k of an invocation is made for LookedUp[k]
NameLike(p) == ~Suffixed(p) /\ ~AllDecimal(p) /\ ~Contains(p, <<"@c.us">>)
LookedUp ==
    IF tool = "create_group" THEN SelectSeq(args.participants, NameLike)
    ELSE <<args.contact>>

IsFetch(k) == calls[k].m = "getContacts"
FetchRefused(k) == IsFetch(k) /\ calls[k].resp.out = "ok" /\ calls[k].resp.code # 200
NoMatch(k) ==
    /\ IsFetch(k)
    /\ Ok(calls[k].resp)
    /\ \A i \in 1..Len(calls[k].resp.data) :
           LET c == calls[k].resp.data[i]
           IN  ~Contains(Lower(DictGet(c, "name", <<>>)), Lower(LookedUp[k]))

\* C11: in a tool that resolves contact references every contact-list fetch
\* precedes the downstream operation, which is issued at most once and last;
\* when a fetch returns a non-success code or no contact matches, nothing is
\* issued after it, the downstream operation is never invoked and the text
\* begins with "Error:"; on a non-success fetch the error is the fetch
\* failure, not the outcome of a scan.
C11_ResolveBeforeDownstream ==
    (pc = "done" /\ tool \in ResolvingTools) =>
        /\ \A k \in 1..Len(calls) :
               IF k < Len(calls) THEN IsFetch(k) /\ Ok(calls[k].resp)
               ELSE calls[k].m \in Downstream \cup {"getContacts"}
        /\ \A k \in 1..Len(calls) :
               (FetchRefused(k) \/ NoMatch(k)) =>
                   /\ k = Len(calls)
                   /\ \A j \in 1..Len(calls) : calls[j].m \notin Downstream
                   /\ result.kind = "return"
                   /\ BeginsWithError(result.text)
        /\ \A k \in 1..Len(calls) :
               FetchRefused(k) =>
                   result.text = <<"Error: ", "Failed to fetch contact list.">>
        /\ \A k \in 1..Len(calls) :
               NoMatch(k) =>
                   result.text = <<"Error: ", "Contact '">> \o LookedUp[k]
                                     \o <<"' not found.">>

C11_Witness ==
    /\ pc = "done"
    /\ tool = "create_group"
    /\ args.participants = <<"a", "a">>
    /\ Len(calls) = 2
    /\ Ok(calls[1].resp)
    /\ FetchRefused(2)
    /\ result = Returned(<<"Error: ", "Failed to fetch contact list.">>)
====
